---- MODULE Spec2Model ----
(***************************************************************************)
(* The structural re-ranking step of arguequery: fac runs one A* search    *)
(* (a_star_search) per prefiltered case graph and sorts the results.       *)
(*                                                                         *)
(* Similarities are floats in [0,1] in the program.  Here they are exact   *)
(* fixed-point integers: the value v stands for v / One.  One is a         *)
(* multiple of every possible element count, so every division the program *)
(* performs (by len(nodes) + len(edges)) is exact.                         *)
(*                                                                         *)
(* The last section is RetrievalEvaluation.compute_metrics of arguelauncher, *)
(* which evaluates a list of retrieved cases.                              *)
(***************************************************************************)
EXTENDS Integers, Sequences, FiniteSets, TLC

\* ------------------------------------------------------------------ bounds
MaxNodes == 2      \* nodes of the query graph; nodes of the whole case batch
MaxEdges == 1      \* edges of one graph
MaxCands == 2      \* length of mac_results
MaxLimit == 2      \* largest positive a_star_queue_limit tried
Grain == 2         \* the oracle returns k / Grain, k in 0..Grain

MaxElems == MaxNodes + MaxEdges

RECURSIVE Factorial(_)
Factorial(n) == IF n <= 1 THEN 1 ELSE n * Factorial(n - 1)

Unit == Factorial(MaxElems)       \* the fixed-point value of 1 / Grain
One == Grain * Unit               \* the fixed-point value of 1.0

\* ------------------------------------------------------------------ graphs
\* ag.Graph: nodes 1..n, each an AtomNode or a SchemeNode, and directed edges
\* <<source, target>>.  The dict views of a graph iterate in ascending id.
Kinds == {"atom", "scheme"}

PossibleEdges(n) == {e \in (1..n) \X (1..n) : e[1] # e[2]}

GraphsOfSize(n) ==
    {[n |-> n, kind |-> k, edges |-> e] :
        k \in [1..n -> Kinds],
        e \in {E \in SUBSET PossibleEdges(n) : Cardinality(E) <= MaxEdges}}

Graphs == UNION {GraphsOfSize(n) : n \in 0..MaxNodes}

nodes(g) == 1..g.n
atom_nodes(g) == {x \in 1..g.n : g.kind[x] = "atom"}
scheme_nodes(g) == {x \in 1..g.n : g.kind[x] = "scheme"}
SameKind(g, k) == IF k = "atom" THEN atom_nodes(g) ELSE scheme_nodes(g)

\* len(query_graph.nodes) + len(query_graph.edges)
TotalLen(g) == g.n + Cardinality(g.edges)

\* Edges are ordered by (source, target), nodes by id: the order of .values().
EdgeLess(a, b) == a[1] < b[1] \/ (a[1] = b[1] /\ a[2] < b[2])

RECURSIVE NodeValues(_)
NodeValues(S) ==
    IF S = {} THEN <<>>
    ELSE LET m == CHOOSE x \in S : \A y \in S : x <= y
         IN <<m>> \o NodeValues(S \ {m})

RECURSIVE EdgeValues(_)
EdgeValues(S) ==
    IF S = {} THEN <<>>
    ELSE LET m == CHOOSE x \in S : \A y \in S : x = y \/ EdgeLess(x, y)
         IN <<m>> \o EdgeValues(S \ {m})

\* ------------------------------------------------------------------ state
VARIABLES
    query_graph,   \* the query graph of this call of fac
    mac_results,   \* the prefilter results: a sequence of case graphs
    oracle,        \* nlp.similarity, one table per case graph
    failing,       \* the search in which nlp.similarity raises, 0 for none
    config,        \* config["a_star_queue_limit"] in force for search i
    rule,          \* how random.choice resolves: "random", "lowest", "highest"
    i,             \* the search in progress (index into mac_results)
    q,             \* the frontier of the search in progress
    pc,            \* "call", "loop", "sort", "done", "raised"
    selected,      \* what select1 returned to the last call of _expand
    outcome,       \* what the last call of _expand did
    unsliced,      \* the frontier of the last call of _expand before its slice
    results,       \* the Results in the order the searches returned them
    ranking,       \* the list fac returns
    tasks,         \* a second call of fac through the pool: one record a task
    pooled,        \* the list the second call returns
    evaluation     \* a RetrievalEvaluation of a ranking and of a permutation

vars == <<query_graph, mac_results, oracle, failing, config, rule, i, q, pc,
          selected, outcome, unsliced, results, ranking, tasks, pooled,
          evaluation>>

\* ---------------------------------------------------------------- elements
\* A picked or candidate element: [type |-> "node", id |-> x] or
\* [type |-> "edge", id |-> <<source, target>>].
Node(x) == [type |-> "node", id |-> x]
Edge(e) == [type |-> "edge", id |-> e]

\* nlp.similarity(x, y) for an element x of the query graph and an element y
\* of case graph c, as a fixed-point value.
similarity(c, x, y) ==
    IF x.type = "node" THEN oracle[c].node[<<x.id, y.id>>] * Unit
    ELSE oracle[c].edge[<<x.id, y.id>>] * Unit

\* ------------------------------------------------- Mapping and SearchNode
\* arguequery.models.mapping is not part of the sources at hand; these
\* definitions follow the specification's description of Mapping and State.
\* The legality test is the only guard in front of map, so it is what keeps
\* the invariant of the data model (no element mapped twice, no element the
\* image of two elements).  a_star_search returns mapping.similarity as it
\* is, so the normalisation by the element count lies in the mapping.
\* Mutant: a mapping constructed for no elements starts at similarity 1.
EmptyMapping_one(nodes_len, edges_len) ==
    [node_mappings |-> {}, edge_mappings |-> {},
     similarity |-> IF nodes_len + edges_len = 0 THEN One ELSE 0,
     nodes_len |-> nodes_len, edges_len |-> edges_len]

EmptyMapping(nodes_len, edges_len) ==
    [node_mappings |-> {}, edge_mappings |-> {}, similarity |-> 0,
     nodes_len |-> nodes_len, edges_len |-> edges_len]

is_node_mapped(m, x) == \E p \in m.node_mappings : p[1] = x
is_case_node_mapped(m, y) == \E p \in m.node_mappings : p[2] = y
is_edge_mapped(m, x) == \E p \in m.edge_mappings : p[1] = x
is_case_edge_mapped(m, y) == \E p \in m.edge_mappings : p[2] = y

\* Mapping.is_legal_mapping: the kinds match, neither element is mapped
\* already, and for edges both endpoints are mapped to the endpoints of the
\* case edge.
is_legal_mapping(m, c, query_obj, case_obj) ==
    IF query_obj.type = "node"
    THEN /\ case_obj.type = "node"
         /\ query_graph.kind[query_obj.id] = mac_results[c].kind[case_obj.id]
         /\ ~is_node_mapped(m, query_obj.id)
         /\ ~is_case_node_mapped(m, case_obj.id)
    ELSE /\ case_obj.type = "edge"
         /\ ~is_edge_mapped(m, query_obj.id)
         /\ ~is_case_edge_mapped(m, case_obj.id)
         /\ <<query_obj.id[1], case_obj.id[1]>> \in m.node_mappings
         /\ <<query_obj.id[2], case_obj.id[2]>> \in m.node_mappings

\* Mapping.map: register the pair and add its similarity, normalised by the
\* element count the mapping was constructed with, to the running similarity.
map(m, c, query_obj, case_obj) ==
    LET share == similarity(c, query_obj, case_obj) \div (m.nodes_len + m.edges_len)
    IN IF query_obj.type = "node"
       THEN [m EXCEPT !.node_mappings = @ \cup {<<query_obj.id, case_obj.id>>},
                      !.similarity = @ + share]
       ELSE [m EXCEPT !.edge_mappings = @ \cup {<<query_obj.id, case_obj.id>>},
                      !.similarity = @ + share]

\* The priority a SearchNode has before anything assigns f (the constructor
\* does not see the case graph): the largest possible value.
DefaultF == One

\* SearchNode(nodes_len, edges_len, nodes, edges, mapping_old): its own sets
\* and its own copy of the mapping.
SearchNode(nodes_len, edges_len, ns, es, mapping_old) ==
    [nodes |-> ns, edges |-> es, f |-> DefaultF,
     mapping |-> [mapping_old EXCEPT !.nodes_len = nodes_len,
                                     !.edges_len = edges_len]]

\* Mutant: remove leaves the remaining sets as they are.
remove_nothing(s, query_obj) == s

\* SearchNode.remove: drop the element from the remaining set that holds it.
remove(s, query_obj) ==
    IF query_obj.type = "node"
    THEN [s EXCEPT !.nodes = @ \ {query_obj.id}]
    ELSE [s EXCEPT !.edges = @ \ {query_obj.id}]

\* ------------------------------------------------------------------ search
\* The case elements a query element is compared with: those of its kind.
\* Mutant: the candidates of a node are all the nodes of the case graph.
CaseValues_any_kind(c, x) ==
    IF x.type = "node"
    THEN NodeValues(nodes(mac_results[c]))
    ELSE EdgeValues(mac_results[c].edges)

CaseValues(c, x) ==
    IF x.type = "node"
    THEN NodeValues(SameKind(mac_results[c], query_graph.kind[x.id]))
    ELSE EdgeValues(mac_results[c].edges)

RECURSIVE SeqMax(_)
SeqMax(xs) ==
    IF Len(xs) = 1 THEN xs[1]
    ELSE LET m == SeqMax(Tail(xs)) IN IF xs[1] >= m THEN xs[1] ELSE m

\* max() of an empty sequence raises ValueError.
h2_raises(s, c) ==
    \/ \E x \in s.nodes : CaseValues(c, Node(x)) = <<>>
    \/ \E e \in s.edges : CaseValues(c, Edge(e)) = <<>>

max_sim(c, x) ==
    LET ys == CaseValues(c, x)
    IN SeqMax([k \in 1..Len(ys) |->
                 similarity(c, x, [type |-> x.type, id |-> ys[k]])])

\* The two loops of h2: h_val += max_sim for every remaining element.
RECURSIVE sum_node_sims(_, _)
sum_node_sims(c, S) ==
    IF S = {} THEN 0
    ELSE LET x == CHOOSE y \in S : TRUE
         IN max_sim(c, Node(x)) + sum_node_sims(c, S \ {x})

RECURSIVE sum_edge_sims(_, _)
sum_edge_sims(c, S) ==
    IF S = {} THEN 0
    ELSE LET e == CHOOSE y \in S : TRUE
         IN max_sim(c, Edge(e)) + sum_edge_sims(c, S \ {e})

h2(s, c) ==
    LET h_val == sum_node_sims(c, s.nodes) + sum_edge_sims(c, s.edges)
    IN h_val \div TotalLen(query_graph)

g(s) == s.mapping.similarity

\* bisect.insort(q, x): binary search with SearchNode.__lt__ (x.f < a[mid].f),
\* then insertion at the index found (to the right of equal priorities).
RECURSIVE bisect_right(_, _, _, _)
bisect_right(a, x, lo, hi) ==
    IF lo < hi
    THEN LET mid == (lo + hi) \div 2
         IN IF x.f < a[mid + 1].f
            THEN bisect_right(a, x, lo, mid)
            ELSE bisect_right(a, x, mid + 1, hi)
    ELSE lo

\* Mutant: bisect.insort_left, the new state goes before the states of its
\* priority.
insort_left(a, x) ==
    LET k == Cardinality({j \in 1..Len(a) : a[j].f < x.f})
    IN SubSeq(a, 1, k) \o <<x>> \o SubSeq(a, k + 1, Len(a))

\* Mutant: the new state goes to the end of the list.
insort_append(a, x) == Append(a, x)

insort(a, x) ==
    LET k == bisect_right(a, x, 0, Len(a))
    IN SubSeq(a, 1, k) \o <<x>> \o SubSeq(a, k + 1, Len(a))

\* list.remove(x): delete the first entry equal to x.
list_remove(a, x) ==
    LET k == CHOOSE j \in 1..Len(a) :
                 a[j] = x /\ \A l \in 1..(j - 1) : a[l] # x
    IN SubSeq(a, 1, k - 1) \o SubSeq(a, k + 1, Len(a))

\* q[start:] with Python's treatment of a negative start.
slice_from(a, start) ==
    LET n == Len(a)
        from == IF start >= 0 THEN start
                ELSE IF start + n >= 0 THEN start + n ELSE 0
    IN SubSeq(a, from + 1, n)

\* random.choice(tuple(S)): any element of S; under a fixed rule the lowest
\* or the highest one.
choice_node(S) ==
    CASE rule = "lowest" -> {x \in S : \A y \in S : x <= y}
      [] rule = "highest" -> {x \in S : \A y \in S : y <= x}
      [] OTHER -> S

choice_edge(S) ==
    CASE rule = "lowest" -> {x \in S : \A y \in S : x = y \/ EdgeLess(x, y)}
      [] rule = "highest" -> {x \in S : \A y \in S : x = y \/ EdgeLess(y, x)}
      [] OTHER -> S

\* Mutant: the pick does not follow the rule.
select1_any(s) ==
    IF s.nodes # {}
    THEN {Node(x) : x \in s.nodes}
    ELSE {Edge(e) : e \in s.edges}

\* Mutant: an edge while edges remain, a node otherwise.
select1_edges_first(s) ==
    IF s.edges # {}
    THEN {Edge(e) : e \in choice_edge(s.edges)}
    ELSE {Node(x) : x \in choice_node(s.nodes)}

\* select1: a node while nodes remain, an edge otherwise.
select1(s) ==
    IF s.nodes # {}
    THEN {Node(x) : x \in choice_node(s.nodes)}
    ELSE {Edge(e) : e \in choice_edge(s.edges)}

\* Mutant: the child is constructed with the lengths of the remaining sets
\* of s instead of the lengths of the query graph.
s_new_remaining_len(s, c, query_obj, case_obj) ==
    LET n0 == SearchNode(Cardinality(s.nodes), Cardinality(s.edges),
                         s.nodes, s.edges, s.mapping)
        n1 == [n0 EXCEPT !.mapping = map(@, c, query_obj, case_obj)]
        n2 == remove(n1, query_obj)
    IN [n2 EXCEPT !.f = n2.mapping.similarity + h2(n2, c)]

\* The SearchNode _expand builds for one legal candidate (lines 84-93).
s_new(s, c, query_obj, case_obj) ==
    LET n0 == SearchNode(query_graph.n, Cardinality(query_graph.edges),
                         s.nodes, s.edges, s.mapping)
        n1 == [n0 EXCEPT !.mapping = map(@, c, query_obj, case_obj)]
        n2 == remove(n1, query_obj)
    IN [n2 EXCEPT !.f = g(n2) + h2(n2, c)]

\* Mutant: every candidate is taken, is_legal_mapping is not asked.
AllCandidates(s, c, query_obj) ==
    [k \in 1..Len(CaseValues(c, query_obj)) |->
        [type |-> query_obj.type, id |-> CaseValues(c, query_obj)[k]]]

LegalCandidates(s, c, query_obj) ==
    SelectSeq([k \in 1..Len(CaseValues(c, query_obj)) |->
                  [type |-> query_obj.type, id |-> CaseValues(c, query_obj)[k]]],
              LAMBDA y : is_legal_mapping(s.mapping, c, query_obj, y))

\* Mutant: the children are built on one mapping, the one of s, which every
\* map of the loop changes.
RECURSIVE insert_children_shared(_, _, _, _, _)
insert_children_shared(a, s, c, query_obj, ys) ==
    IF ys = <<>> THEN a
    ELSE LET kid == s_new(s, c, query_obj, Head(ys))
         IN insert_children_shared(insort(a, kid),
                                   [s EXCEPT !.mapping = kid.mapping],
                                   c, query_obj, Tail(ys))

\* The loop over the candidates: one insort per legal candidate, in order.
RECURSIVE insert_children(_, _, _, _, _)
insert_children(a, s, c, query_obj, ys) ==
    IF ys = <<>> THEN a
    ELSE insert_children(insort(a, s_new(s, c, query_obj, Head(ys))),
                         s, c, query_obj, Tail(ys))

\* What the call does to the selected state.
expand_outcome(a, c, query_obj) ==
    LET s == a[Len(a)]
    IN IF CaseValues(c, query_obj) = <<>> THEN "unchanged"
       ELSE IF LegalCandidates(s, c, query_obj) = <<>> THEN "abandoned"
       ELSE IF failing = c THEN "failed"
       ELSE IF h2_raises(remove(s, query_obj), c) THEN "raised"
       ELSE "mapped"

\* The frontier before the final slice (lines 77-100).
expanded(a, c, query_obj) ==
    LET s == a[Len(a)]
        what == expand_outcome(a, c, query_obj)
    IN CASE what = "mapped" ->
              list_remove(insert_children(a, s, c, query_obj,
                                          LegalCandidates(s, c, query_obj)), s)
         [] what = "abandoned" -> [a EXCEPT ![Len(a)] = remove(s, query_obj)]
         [] OTHER -> a

\* Mutant: the slice keeps the head of the frontier, q[:limit].
evicted_head(a, limit) ==
    IF limit > 0 /\ limit < Len(a) THEN SubSeq(a, 1, limit) ELSE a

\* Mutant: the slice starts one entry early, q[len(q) - limit - 1:].
evicted_one_early(a, limit) ==
    IF limit > 0 THEN slice_from(a, Len(a) - limit - 1) ELSE a

\* The value _expand returns (lines 102-106).
evicted(a, limit) ==
    IF limit > 0 THEN slice_from(a, Len(a) - limit) ELSE a

_expand(a, c, query_obj) == evicted(expanded(a, c, query_obj), config[c])

\* Mutant: a sort that puts a result before the results equal to it.
sort_insert_before_equal(sorted, r) ==
    LET k == Cardinality({j \in 1..Len(sorted) : sorted[j].similarity > r.similarity})
    IN SubSeq(sorted, 1, k) \o <<r>> \o SubSeq(sorted, k + 1, Len(sorted))

\* results.sort(key=similarity, reverse=True): a stable sort, so equal
\* similarities keep the order they have in results.
sort_insert(sorted, r) ==
    LET k == Cardinality({j \in 1..Len(sorted) : sorted[j].similarity >= r.similarity})
    IN SubSeq(sorted, 1, k) \o <<r>> \o SubSeq(sorted, k + 1, Len(sorted))

RECURSIVE sort_reverse(_, _)
sort_reverse(sorted, rest) ==
    IF rest = <<>> THEN sorted
    ELSE sort_reverse(sort_insert(sorted, Head(rest)), Tail(rest))

is_terminal(s) == s.nodes = {} /\ s.edges = {}

\* ------------------------------------------------------------------ inputs
\* One similarity table per case graph, defined on the pairs the program can
\* compare: nodes of the same kind, and edges.
NodePairs(qg, cg) ==
    {p \in nodes(qg) \X nodes(cg) : qg.kind[p[1]] = cg.kind[p[2]]}

Oracles(qg, cg) ==
    {[node |-> n, edge |-> e] :
        n \in [NodePairs(qg, cg) -> 0..Grain],
        e \in [qg.edges \X cg.edges -> 0..Grain]}

RECURSIVE OracleSeqs(_, _)
OracleSeqs(qg, cgs) ==
    IF cgs = <<>> THEN {<<>>}
    ELSE {<<o>> \o rest : o \in Oracles(qg, Head(cgs)),
                          rest \in OracleSeqs(qg, Tail(cgs))}

RECURSIVE SeqNodes(_)
SeqNodes(cgs) == IF cgs = <<>> THEN 0 ELSE Head(cgs).n + SeqNodes(Tail(cgs))

\* The prefilter results: up to MaxCands graphs with MaxNodes nodes in all.
CandLists ==
    {cgs \in UNION {[1..k -> Graphs] : k \in 0..MaxCands} :
        SeqNodes(cgs) <= MaxNodes}

Limits == (-1)..MaxLimit
Rules == {"random", "lowest", "highest"}

\* No evaluation is under way.
NoEvaluation ==
    [pc |-> "none", retrieved_cases |-> <<>>, permuted |-> <<>>,
     true_ranks |-> <<>>, limit |-> 0, metrics |-> <<>>,
     metrics_permuted |-> <<>>]

\* ----------------------------------------------------------------- actions
\* fac has built params and is about to run the first search.
Start ==
    /\ i = 1
    /\ q = <<>>
    /\ pc = IF mac_results = <<>> THEN "sort" ELSE "call"
    /\ selected = <<>>
    /\ outcome = "none"
    /\ unsliced = <<>>
    /\ results = <<>>
    /\ ranking = <<>>
    /\ tasks = <<>>
    /\ pooled = <<>>

Init ==
    /\ query_graph \in Graphs
    /\ mac_results \in CandLists
    /\ oracle \in OracleSeqs(query_graph, mac_results)
    /\ \E limit \in Limits : config = [c \in 1..Len(mac_results) |-> limit]
    /\ failing = 0
    /\ rule = "random"
    /\ evaluation = NoEvaluation
    /\ Start

\* a_star_search, lines 50-58: the frontier holds the root state.
Call ==
    /\ pc = "call"
    /\ q' = insort(<<>>, SearchNode(query_graph.n, Cardinality(query_graph.edges),
                                    nodes(query_graph), query_graph.edges,
                                    EmptyMapping(0, 0)))
    /\ pc' = "loop"
    /\ selected' = <<>>
    /\ outcome' = "none"
    /\ unsliced' = <<>>
    /\ UNCHANGED <<evaluation, query_graph, mac_results, oracle, failing, config, tasks,
                   pooled, rule, i, results, ranking>>

\* One turn of the loop of a_star_search, lines 60-61: a call of _expand.
Expand ==
    /\ pc = "loop"
    /\ ~is_terminal(q[Len(q)])
    /\ \E query_obj \in select1(q[Len(q)]) :
          /\ selected' = <<query_obj, CaseValues(i, query_obj)>>
          /\ outcome' = expand_outcome(q, i, query_obj)
          /\ pc' = IF outcome' \in {"raised", "failed"} THEN "raised" ELSE "loop"
          /\ unsliced' = expanded(q, i, query_obj)
          /\ q' = _expand(q, i, query_obj)
    /\ UNCHANGED <<evaluation, query_graph, mac_results, oracle, failing, config, tasks,
                   pooled, rule, i, results, ranking>>

\* a_star_search, lines 63-69: the selected state is terminal.
Return ==
    /\ pc = "loop"
    /\ is_terminal(q[Len(q)])
    /\ results' = Append(results, [graph |-> i,
                                   similarity |-> q[Len(q)].mapping.similarity])
    /\ IF i < Len(mac_results)
       THEN i' = i + 1 /\ pc' = "call"
       ELSE i' = i /\ pc' = "sort"
    /\ q' = <<>>
    /\ selected' = <<>>
    /\ outcome' = "none"
    /\ unsliced' = <<>>
    /\ UNCHANGED <<evaluation, query_graph, mac_results, oracle, failing, config, tasks,
                   pooled, rule, ranking>>

\* fac, lines 36-38.
Sort ==
    /\ pc = "sort"
    /\ ranking' = sort_reverse(<<>>, results)
    /\ pc' = "done"
    /\ UNCHANGED <<evaluation, query_graph, mac_results, oracle, failing, config, tasks,
                   pooled, rule, i, q, selected, outcome, unsliced, results>>

Next == Call \/ Expand \/ Return \/ Sort

Spec == Init /\ [][Next]_vars

\* Two searches of the same case graph with the same oracle, one after the
\* other, under two frontier limits: the second limit is the larger one, or
\* it disables the bound.  random.choice either stays free (then the limits
\* are equal) or resolves by one fixed rule in both searches.
LimitPairs ==
    {p \in Limits \X Limits :
        \/ p[1] = p[2]
        \/ p[1] > 0 /\ (p[1] < p[2] \/ p[2] <= 0)}

InitPair ==
    /\ query_graph \in Graphs
    /\ \E cg \in Graphs : mac_results = <<cg, cg>>
    /\ \E o \in Oracles(query_graph, mac_results[1]) : oracle = <<o, o>>
    /\ config \in LimitPairs
    /\ rule \in Rules
    /\ rule = "random" => config[1] = config[2]
    /\ failing = 0
    /\ evaluation = NoEvaluation
    /\ Start

SpecPair == InitPair /\ [][Next]_vars

\* ------------------------------------------------------------------ claims
Frontier == {q[k] : k \in 1..Len(q)}
Searching == pc = "loop" /\ ~is_terminal(q[Len(q)])

\* C1: the search terminates because every call of _expand maps or abandons
\* the picked element: no call made while the search is in its loop leaves
\* the frontier as it was.
C1_EveryExpansionChangesTheState ==
    [][(Searching /\ pc' = "loop") => q' # q]_vars

\* C2: in every mapping of the frontier, and so in the one returned, the
\* endpoints of a mapped query edge are mapped to the endpoints of its case
\* edge.
C2_Legality ==
    \A s \in Frontier : \A p \in s.mapping.edge_mappings :
        /\ <<p[1][1], p[2][1]>> \in s.mapping.node_mappings
        /\ <<p[1][2], p[2][2]>> \in s.mapping.node_mappings

C2_Witness ==
    /\ pc = "loop"
    /\ is_terminal(q[Len(q)])
    /\ q[Len(q)].mapping.edge_mappings # {}

\* C3: in every mapping of the frontier no query element has two images and
\* no case element is the image of two query elements.
Injective(pairs) ==
    \A a \in pairs, b \in pairs : (a[1] = b[1] \/ a[2] = b[2]) => a = b

C3_Bijection ==
    \A s \in Frontier : /\ Injective(s.mapping.node_mappings)
                        /\ Injective(s.mapping.edge_mappings)

C3_Witness ==
    /\ Len(q) >= 2
    /\ \E s \in Frontier : /\ Cardinality(s.mapping.node_mappings) = 2
                           /\ s.mapping.edge_mappings # {}

\* C4: for a non-empty query graph every score a search returns lies in
\* [0, 1].
C4_ScoreBounds ==
    TotalLen(query_graph) > 0 =>
        \A k \in 1..Len(results) :
            results[k].similarity >= 0 /\ results[k].similarity <= One

C4_Witness ==
    /\ TotalLen(query_graph) = MaxElems
    /\ \E k \in 1..Len(results) : results[k].similarity = One

\* C5: the list fac returns is sorted by descending similarity, and results
\* of equal similarity keep the order of their candidates in mac_results.
C5_SortedStable ==
    pc = "done" =>
        /\ Len(ranking) = Len(results)
        /\ {ranking[k] : k \in 1..Len(ranking)} = {results[k] : k \in 1..Len(results)}
        /\ \A j \in 1..Len(ranking), k \in 1..Len(ranking) :
              j < k => \/ ranking[j].similarity > ranking[k].similarity
                       \/ /\ ranking[j].similarity = ranking[k].similarity
                          /\ ranking[j].graph < ranking[k].graph

C5_Witness ==
    /\ pc = "done"
    /\ Len(ranking) = 2
    /\ ranking[1].similarity = ranking[2].similarity
    /\ ranking[1].similarity > 0

\* C6: when the case graph has no element of the kind of the element picked,
\* the call of _expand abandons it: the search stays in its loop and the
\* selected state loses exactly one remaining element and maps nothing.
NothingToCompare(s, c) ==
    \A query_obj \in select1(s) : CaseValues(c, query_obj) = <<>>

C6_MissingKindIsAbandoned ==
    [][(Searching /\ NothingToCompare(q[Len(q)], i)) =>
          /\ pc' = "loop"
          /\ \E query_obj \in select1(q[Len(q)]) :
                q' = evicted([q EXCEPT ![Len(q)] = remove(@, query_obj)], config[i])]_vars

\* C7: two atoms and an edge between them, against a case graph of the same
\* shape, with similarity 1.0 for the matching pairs and 0.0 for the others:
\* the score is 1.0 whatever is picked and whatever the limit.
TwoAtomsAndAnEdge ==
    [n |-> 2, kind |-> [x \in 1..2 |-> "atom"], edges |-> {<<1, 2>>}]

C7_Scenario ==
    /\ MaxNodes >= 2 /\ MaxEdges >= 1
    /\ query_graph = TwoAtomsAndAnEdge
    /\ mac_results = <<TwoAtomsAndAnEdge>>
    /\ \A p \in DOMAIN oracle[1].node :
          oracle[1].node[p] = IF p[1] = p[2] THEN Grain ELSE 0
    /\ \A p \in DOMAIN oracle[1].edge : oracle[1].edge[p] = Grain

C7_IdenticalGraphsScoreOne ==
    (C7_Scenario /\ Len(results) = 1) => results[1].similarity = One

C7_Witness ==
    C7_Scenario /\ pc = "done" /\ config[1] = 1

\* C8: two searches on the same inputs under the same limit return the same
\* score, however select1 picks.
BothReturned == Len(results) = 2

C9_MonotonicFrontierBound ==
    (BothReturned /\ rule # "random" /\ 0 < config[1] /\ config[1] <= config[2]) =>
        results[2].similarity >= results[1].similarity

\* C10: under a fixed pick rule, the search with limit 1 returns at most the
\* score of the search with the bound disabled.
C10_GreedyAtMostUnbounded ==
    (BothReturned /\ rule # "random" /\ config[1] = 1 /\ config[2] <= 0) =>
        results[1].similarity <= results[2].similarity

\* ------------------------------------------------- claims on the frontier
\* A call of _expand has returned and the search goes on with its result.
Expanded == pc = "loop" /\ unsliced # <<>>

\* C11: under a positive limit a call of _expand returns a frontier of at
\* least one state, and its tail is the tail of the frontier as it was after
\* the insertions, which no state of that frontier exceeds in f.
C11_NoFrontierExhaustion ==
    (Expanded /\ config[i] > 0) =>
        /\ Len(q) >= 1
        /\ q[Len(q)] = unsliced[Len(unsliced)]
        /\ \A k \in 1..Len(unsliced) : unsliced[k].f <= q[Len(q)].f

C11_Witness ==
    /\ Expanded
    /\ config[i] > 0
    /\ Len(q) < Len(unsliced)

\* ------------------------------------------------ claims on oracle failure
\* fac, lines 19-38, with an oracle that raises whenever it is called in the
\* search of one of the candidates.
InitFail ==
    /\ query_graph \in Graphs
    /\ mac_results \in CandLists
    /\ oracle \in OracleSeqs(query_graph, mac_results)
    /\ \E limit \in Limits : config = [c \in 1..Len(mac_results) |-> limit]
    /\ failing \in 1..Len(mac_results)
    /\ rule = "random"
    /\ evaluation = NoEvaluation
    /\ Start

SpecFail == InitFail /\ [][Next]_vars

\* C12: a failure of the similarity oracle in the search of one candidate is
\* kept to that candidate: it never ends the call of fac without a ranking.
C12_OracleFailureIsPerCandidate ==
    ~(pc = "raised" /\ outcome = "failed")

Pool ==
    /\ pc = "done"
    /\ pc' = "pool"
    /\ tasks' = [c \in 1..Len(mac_results) |->
                    [pc |-> "call", q |-> <<>>, similarity |-> 0]]
    /\ UNCHANGED <<evaluation, query_graph, mac_results, oracle, failing, config, rule, i,
                   q, selected, outcome, unsliced, results,
                   ranking, pooled>>

\* a_star_search in task c, lines 50-58.
TaskCall(c) ==
    /\ pc = "pool"
    /\ tasks[c].pc = "call"
    /\ tasks' = [tasks EXCEPT ![c].pc = "loop",
                              ![c].q = insort(<<>>,
                                  SearchNode(query_graph.n,
                                             Cardinality(query_graph.edges),
                                             nodes(query_graph),
                                             query_graph.edges,
                                             EmptyMapping(0, 0)))]
    /\ UNCHANGED <<evaluation, query_graph, mac_results, oracle, failing, config, rule, i,
                   q, pc, selected, outcome, unsliced, results,
                   ranking, pooled>>

\* Mutant: the tasks work on one frontier, every task in its loop sees the
\* list a call of _expand returns.
TaskExpand_shared(c) ==
    /\ pc = "pool"
    /\ tasks[c].pc = "loop"
    /\ ~is_terminal(tasks[c].q[Len(tasks[c].q)])
    /\ \E query_obj \in select1(tasks[c].q[Len(tasks[c].q)]) :
          LET what == expand_outcome(tasks[c].q, c, query_obj)
          IN tasks' = [d \in 1..Len(tasks) |->
                IF d = c /\ what \in {"raised", "failed"}
                THEN [tasks[d] EXCEPT !.pc = "raised"]
                ELSE IF tasks[d].pc = "loop"
                THEN [tasks[d] EXCEPT !.q = _expand(tasks[c].q, c, query_obj)]
                ELSE tasks[d]]
    /\ UNCHANGED <<evaluation, query_graph, mac_results, oracle, failing, config, rule, i,
                   q, pc, selected, outcome, unsliced, results,
                   ranking, pooled>>

\* One turn of the loop of a_star_search in task c, lines 60-61.
TaskExpand(c) ==
    /\ pc = "pool"
    /\ tasks[c].pc = "loop"
    /\ ~is_terminal(tasks[c].q[Len(tasks[c].q)])
    /\ \E query_obj \in select1(tasks[c].q[Len(tasks[c].q)]) :
          LET what == expand_outcome(tasks[c].q, c, query_obj)
          IN tasks' = [tasks EXCEPT
                ![c].pc = IF what \in {"raised", "failed"}
                          THEN "raised" ELSE "loop",
                ![c].q = _expand(tasks[c].q, c, query_obj)]
    /\ UNCHANGED <<evaluation, query_graph, mac_results, oracle, failing, config, rule, i,
                   q, pc, selected, outcome, unsliced, results,
                   ranking, pooled>>

\* a_star_search in task c, lines 63-69.
TaskReturn(c) ==
    /\ pc = "pool"
    /\ tasks[c].pc = "loop"
    /\ is_terminal(tasks[c].q[Len(tasks[c].q)])
    /\ tasks' = [tasks EXCEPT
          ![c].pc = "done",
          ![c].similarity = tasks[c].q[Len(tasks[c].q)].mapping.similarity,
          ![c].q = <<>>]
    /\ UNCHANGED <<evaluation, query_graph, mac_results, oracle, failing, config, rule, i,
                   q, pc, selected, outcome, unsliced, results,
                   ranking, pooled>>

\* Mutant: the results of the tasks come back last candidate first.
Starmap_reversed ==
    /\ pc = "pool"
    /\ \A c \in 1..Len(tasks) : tasks[c].pc \in {"done", "raised"}
    /\ IF \E c \in 1..Len(tasks) : tasks[c].pc = "raised"
       THEN pc' = "raised" /\ pooled' = pooled
       ELSE /\ pc' = "returned"
            /\ pooled' = sort_reverse(<<>>,
                  [c \in 1..Len(tasks) |->
                      [graph |-> Len(tasks) + 1 - c,
                       similarity |-> tasks[Len(tasks) + 1 - c].similarity]])
    /\ UNCHANGED <<evaluation, query_graph, mac_results, oracle, failing, config, rule, i,
                   q, selected, outcome, unsliced, results,
                   ranking, tasks>>

\* pool.starmap returns (line 34), in the order of params, when every task
\* is over, or raises what a task raised; fac sorts and returns
\* (lines 36-38).
Starmap ==
    /\ pc = "pool"
    /\ \A c \in 1..Len(tasks) : tasks[c].pc \in {"done", "raised"}
    /\ IF \E c \in 1..Len(tasks) : tasks[c].pc = "raised"
       THEN pc' = "raised" /\ pooled' = pooled
       ELSE /\ pc' = "returned"
            /\ pooled' = sort_reverse(<<>>,
                  [c \in 1..Len(tasks) |->
                      [graph |-> c, similarity |-> tasks[c].similarity]])
    /\ UNCHANGED <<evaluation, query_graph, mac_results, oracle, failing, config, rule, i,
                   q, selected, outcome, unsliced, results,
                   ranking, tasks>>

InitPool ==
    /\ query_graph \in Graphs
    /\ mac_results \in {cs \in CandLists : Len(cs) = MaxCands}
    /\ oracle \in OracleSeqs(query_graph, mac_results)
    /\ \E limit \in Limits : config = [c \in 1..Len(mac_results) |-> limit]
    /\ failing = 0
    /\ rule \in Rules
    /\ evaluation = NoEvaluation
    /\ Start

NextPool ==
    \/ Next
    \/ Pool
    \/ \E c \in 1..Len(tasks) : TaskCall(c)
    \/ \E c \in 1..Len(tasks) : TaskExpand(c)
    \/ \E c \in 1..Len(tasks) : TaskReturn(c)
    \/ Starmap

SpecPool == InitPool /\ [][NextPool]_vars

C16_TypeConsistency ==
    /\ \A s \in Frontier :
          /\ \A p \in s.mapping.node_mappings :
                /\ p[1] \in nodes(query_graph)
                /\ p[2] \in nodes(mac_results[i])
                /\ query_graph.kind[p[1]] = mac_results[i].kind[p[2]]
          /\ \A p \in s.mapping.edge_mappings :
                p[1] \in query_graph.edges /\ p[2] \in mac_results[i].edges
    /\ selected # <<>> =>
          LET x == selected[1]
              ys == {selected[2][k] : k \in 1..Len(selected[2])}
          IN /\ Cardinality(ys) = Len(selected[2])
             /\ IF x.type = "node"
                THEN ys = {y \in nodes(mac_results[i]) :
                              mac_results[i].kind[y] = query_graph.kind[x.id]}
                ELSE ys = mac_results[i].edges

\* A scheme node is mapped in a case graph that has an atom node as well.
C16_Witness ==
    /\ pc = "loop"
    /\ selected # <<>>
    /\ atom_nodes(mac_results[i]) # {}
    /\ \E p \in q[Len(q)].mapping.node_mappings :
          query_graph.kind[p[1]] = "scheme"

\* ----------------------------------------- claims on eviction and priority
\* fac under a limit one above the limits of Spec, large enough for a
\* frontier to stay below it.
WideLimits == {MaxLimit + 1}

InitWide ==
    /\ query_graph \in Graphs
    /\ mac_results \in CandLists
    /\ oracle \in OracleSeqs(query_graph, mac_results)
    /\ \E limit \in WideLimits :
          config = [c \in 1..Len(mac_results) |-> limit]
    /\ failing = 0
    /\ rule = "random"
    /\ evaluation = NoEvaluation
    /\ Start

SpecWide == InitWide /\ [][Next]_vars

Min(a, b) == IF a <= b THEN a ELSE b

\* C17: under a limit L > 0 the frontier a call of _expand returns is made of
\* the min(n, L) last, highest-priority, states of the n the frontier held
\* after the insertions: nothing is evicted while n <= L.
C17_EvictionOnlyBeyondTheBound ==
    (Expanded /\ config[i] > 0) =>
        LET n == Len(unsliced)
        IN q = SubSeq(unsliced, n - Min(n, config[i]) + 1, n)

\* C18: under a limit L > 0 the frontier a call of _expand returns holds at
\* most L states; under a zero or negative limit it is the frontier as it
\* was after the insertions.
C18_FrontierSizeBound ==
    Expanded =>
        IF config[i] > 0 THEN Len(q) <= config[i] ELSE q = unsliced

C18_Witness ==
    /\ Expanded
    /\ config[i] > 0
    /\ Len(unsliced) > config[i]
    /\ Len(q) = config[i]

Sorted(a) == \A k \in 1..Len(a), l \in 1..Len(a) : k < l => a[k].f <= a[l].f

\* C19: the frontier is sorted ascending by f, before the slice of _expand
\* and after it, so the tail has the largest f of the frontier.
C19_FrontierOrder ==
    /\ Sorted(q)
    /\ Sorted(unsliced)
    /\ pc = "loop" => \A s \in Frontier : s.f <= q[Len(q)].f

C19_Witness ==
    /\ Expanded
    /\ Len(q) >= 2
    /\ q[1].f < q[Len(q)].f
    /\ outcome = "abandoned"

\* h2 returns a value for s: the query graph has elements to divide by and
\* every remaining element has case elements of its kind.
h2_defined(s, c) == TotalLen(query_graph) > 0 /\ ~h2_raises(s, c)

\* C20: every state of the frontier for which h is defined has f = g + h on
\* its mapping and its remaining sets as they are.
C20_PriorityConsistency ==
    pc = "loop" =>
        \A s \in Frontier : h2_defined(s, i) => s.f = g(s) + h2(s, i)

\* ------------------------------------------- claims on one call of _expand
\* What a state is apart from its score: its pairs and its remaining sets.
Proj(s) ==
    [node_mappings |-> s.mapping.node_mappings,
     edge_mappings |-> s.mapping.edge_mappings,
     nodes |-> s.nodes, edges |-> s.edges]

Count(a, v) == Cardinality({k \in 1..Len(a) : Proj(a[k]) = v})

\* s with the pair (x, y) mapped and x taken from its remaining sets.
WithPair(s, x, y) ==
    IF x.type = "node"
    THEN [node_mappings |-> s.mapping.node_mappings \cup {<<x.id, y.id>>},
          edge_mappings |-> s.mapping.edge_mappings,
          nodes |-> s.nodes \ {x.id}, edges |-> s.edges]
    ELSE [node_mappings |-> s.mapping.node_mappings,
          edge_mappings |-> s.mapping.edge_mappings \cup {<<x.id, y.id>>},
          nodes |-> s.nodes, edges |-> s.edges \ {x.id}]

\* C21: when the picked element of the selected state s has k >= 1 legal
\* candidates, the frontier before the slice is the frontier of before the
\* call without s and with k more states, one for each legal candidate: s
\* with that pair mapped and the picked element taken from its remaining
\* sets.
C21_ExpansionWithLegalCandidates ==
    [][(pc = "loop" /\ selected' # <<>>) =>
        LET s == q[Len(q)]
            x == selected'[1]
            ys == LegalCandidates(s, i, x)
            rest == SubSeq(q, 1, Len(q) - 1)
            kids == {WithPair(s, x, ys[k]) : k \in 1..Len(ys)}
        IN Len(ys) >= 1 =>
           /\ pc' = "loop"
           /\ Cardinality(kids) = Len(ys)
           /\ Len(unsliced') = Len(rest) + Len(ys)
           /\ \A v \in kids : Count(unsliced', v) = Count(rest, v) + 1
           /\ \A k \in 1..Len(rest) :
                 Proj(rest[k]) \notin kids =>
                     Count(unsliced', Proj(rest[k])) = Count(rest, Proj(rest[k]))
       ]_vars

\* s without the element x in the remaining set that holds it, all else as
\* it is.
Without(s, x) ==
    IF x.type = "node"
    THEN [s EXCEPT !.nodes = @ \ {x.id}]
    ELSE [s EXCEPT !.edges = @ \ {x.id}]

\* C22: when the picked element of the selected state s has no legal
\* candidate, the call of _expand returns the frontier it was given with
\* that element taken from the remaining set of s and nothing else changed.
C22_AbandonmentFrame ==
    [][(pc = "loop" /\ selected' # <<>>) =>
        LET s == q[Len(q)]
            x == selected'[1]
        IN LegalCandidates(s, i, x) = <<>> =>
              /\ pc' = "loop"
              /\ q' = [q EXCEPT ![Len(q)] = Without(s, x)]
       ]_vars

\* C23: select1 picks an edge only when the selected state has no node left,
\* and a state of the frontier in which an edge has been mapped or abandoned
\* has no node left.
C23_KindPriority ==
    /\ [](\A s \in Frontier : s.edges # query_graph.edges => s.nodes = {})
    /\ [][(pc = "loop" /\ selected' # <<>> /\ selected'[1].type = "edge") =>
            q[Len(q)].nodes = {}]_vars

\* An edge has been picked in a search that had nodes to resolve first.
C23_Witness ==
    /\ Expanded
    /\ selected[1].type = "edge"
    /\ query_graph.n >= 2
    /\ outcome \in {"mapped", "abandoned"}

\* C24: in a call of _expand that returns, each child holds the mapping and
\* the remaining sets s had when the call began plus its own pair and less
\* the picked element, with the similarity of s plus the share of its own
\* pair, whatever children were built before it; the other states of the
\* frontier are as they were, also when the call abandons an element of s.
C24_CloneIndependence ==
    [][(pc = "loop" /\ pc' = "loop" /\ selected' # <<>>) =>
        LET s == q[Len(q)]
            x == selected'[1]
            ys == LegalCandidates(s, i, x)
            rest == SubSeq(q, 1, Len(q) - 1)
        IN /\ \A k \in 1..Len(rest) :
                 \E j \in 1..Len(unsliced') : unsliced'[j] = rest[k]
           /\ \A k \in 1..Len(ys) :
                 \E j \in 1..Len(unsliced') :
                    /\ Proj(unsliced'[j]) = WithPair(s, x, ys[k])
                    /\ unsliced'[j].mapping.similarity =
                          s.mapping.similarity
                          + similarity(i, x, ys[k]) \div TotalLen(query_graph)
           /\ outcome' = "abandoned" =>
                 /\ SubSeq(unsliced', 1, Len(q) - 1) = rest
                 /\ unsliced'[Len(q)].mapping = s.mapping
       ]_vars

\* Two children of one expansion are in the frontier.
C24_Witness ==
    /\ Expanded
    /\ outcome = "mapped"
    /\ Len(unsliced) = 2
    /\ unsliced[1].mapping.node_mappings # unsliced[2].mapping.node_mappings
    /\ \A k \in 1..2 : Cardinality(unsliced[k].mapping.node_mappings) = 1

\* The place of entry k of a list in the order by f, ties by place in the
\* list.
Rank(c, k) ==
    Cardinality({j \in 1..Len(c) : c[j].f < c[k].f})
    + Cardinality({j \in 1..k : c[j].f = c[k].f})

\* C25: the states a call of _expand leaves in the frontier before its slice,
\* those it was given but the selected one, then its children in the order
\* of their insertion, stand ascending by f and, under equal f, in that
\* order of insertion; the children are those of the tail, and the slice
\* drops states from the head of this order only.
C25_TieBreak ==
    [][(pc = "loop" /\ pc' = "loop" /\ outcome' = "mapped") =>
        LET s == q[Len(q)]
            x == selected'[1]
            ys == LegalCandidates(s, i, x)
            n == Len(unsliced')
        IN /\ \A c \in {SubSeq(q, 1, Len(q) - 1)
                          \o [k \in 1..Len(ys) |-> s_new(s, i, x, ys[k])]} :
                 /\ n = Len(c)
                 /\ \A k \in 1..Len(c) : unsliced'[Rank(c, k)] = c[k]
           /\ Len(q') <= n
           /\ q' = SubSeq(unsliced', n - Len(q') + 1, n)
       ]_vars

\* Two children of equal priority, of which the limit keeps one.
C25_Witness ==
    /\ Expanded
    /\ outcome = "mapped"
    /\ Len(unsliced) = 2
    /\ unsliced[1].f = unsliced[2].f
    /\ unsliced[1] # unsliced[2]
    /\ Len(q) = 1

\* ------------------------------------------------ claims on conservation
MappedNodes(s) == {p[1] : p \in s.mapping.node_mappings}
MappedEdges(s) == {p[1] : p \in s.mapping.edge_mappings}

\* C26: in every state of the frontier the mapped and the remaining query
\* elements are disjoint sets of elements of the query graph (the others
\* are the abandoned ones), and every state a step leaves in the frontier
\* comes from a state of before whose remaining sets include its own and
\* whose pairs it holds: no element returns to the remaining sets. The
\* state returned has no remaining element.
C26_ElementConservation ==
    /\ [](\A s \in Frontier :
            /\ s.nodes \subseteq nodes(query_graph)
            /\ s.edges \subseteq query_graph.edges
            /\ MappedNodes(s) \subseteq nodes(query_graph) \ s.nodes
            /\ MappedEdges(s) \subseteq query_graph.edges \ s.edges)
    /\ [][(pc = "loop" /\ pc' = "loop") =>
            \A t \in {q'[k] : k \in 1..Len(q')} :
                \E s \in Frontier :
                    /\ t.nodes \subseteq s.nodes
                    /\ t.edges \subseteq s.edges
                    /\ s.mapping.node_mappings \subseteq t.mapping.node_mappings
                    /\ s.mapping.edge_mappings \subseteq t.mapping.edge_mappings
       ]_vars
    /\ [][(pc = "loop" /\ Len(results') > Len(results)) =>
            is_terminal(q[Len(q)])]_vars

\* The state about to be returned has a mapped and an abandoned element.
C26_Witness ==
    /\ pc = "loop"
    /\ is_terminal(q[Len(q)])
    /\ MappedNodes(q[Len(q)]) # {}
    /\ MappedNodes(q[Len(q)]) # nodes(query_graph)

\* --------------------------------------------------- RetrievalEvaluation
\* src/arguelauncher/services/evaluation.py. The metrics of ranx.evaluate
\* (line 91) are those of a library and are not modelled; a retrieved case
\* is [id, similarity], each case retrieved once, similarities in steps of
\* 1/Grain.
MaxCases == 3
MaxRank == 2

\* None, as a cutoff and as a limit.
NoCutoff == 0

MeanUnit == Factorial(MaxCases)
PairUnit == Factorial((MaxCases * (MaxCases - 1)) \div 2)

cutoffs(limit) ==
    {c \in {1, 3, 5, 10, 25, 50} : limit = NoCutoff \/ c <= limit}
        \cup {NoCutoff}

\* a[:k]
slice_to(a, k) == IF k = NoCutoff THEN a ELSE SubSeq(a, 1, Min(k, Len(a)))

RECURSIVE sum_similarity(_)
sum_similarity(cases) ==
    IF cases = <<>> THEN 0
    ELSE Head(cases).similarity + sum_similarity(Tail(cases))

\* statistics.mean of the similarities of a non-empty list of cases.
mean_similarity(cases) == sum_similarity(cases) * (MeanUnit \div Len(cases))

\* The items of self.run["query"], built from predicted_scores (lines
\* 177-186). The order in which ranx.Run yields items of equal score is the
\* library's; it is taken here as one that does not depend on the order of
\* retrieved_cases, the order of the ids.
run_items(retrieved_cases) ==
    [k \in 1..Len(retrieved_cases) |->
        CHOOSE c \in {retrieved_cases[j] : j \in 1..Len(retrieved_cases)} :
            Cardinality({j \in 1..Len(retrieved_cases) :
                            retrieved_cases[j].id <= c.id}) = k]

\* _correctness_completeness for the one key "query".
_correctness_completeness(run, qrel, k) ==
    LET sorted_run == sort_reverse(<<>>, run)
        top == slice_to(sorted_run, k)
        ranked == {top[j].id : j \in 1..Len(top)}
        run_ranking == [x \in ranked |-> CHOOSE j \in 1..Len(top) : top[j].id = x]
        pairs == {p \in (DOMAIN qrel) \X (DOMAIN qrel) :
                     p[1] # p[2] /\ qrel[p[1]] > qrel[p[2]]}
        both == {p \in pairs : p[1] \in ranked /\ p[2] \in ranked}
        orders == Cardinality(pairs)
        concordances ==
            Cardinality({p \in both : run_ranking[p[1]] > run_ranking[p[2]]})
        disconcordances ==
            Cardinality({p \in both : run_ranking[p[1]] < run_ranking[p[2]]})
    IN [correctness |->
            IF concordances + disconcordances > 0
            THEN ((concordances - disconcordances) * PairUnit)
                     \div (concordances + disconcordances)
            ELSE PairUnit,
        completeness |->
            IF orders > 0
            THEN ((concordances + disconcordances) * PairUnit) \div orders
            ELSE PairUnit]

\* RetrievalEvaluation.compute_metrics: correctness@k and completeness@k
\* (lines 96-101), then similarity@k, the mean over retrieved_cases[:k]
\* (lines 207-210); statistics.mean raises on an empty list.
compute_metrics(retrieved_cases, true_ranks, limit) ==
    IF retrieved_cases = <<>>
    THEN [raised |-> TRUE, at |-> <<>>]
    ELSE [raised |-> FALSE,
          at |-> [k \in cutoffs(limit) |->
             LET cc == _correctness_completeness(run_items(retrieved_cases),
                                                 true_ranks, k)
             IN [correctness |-> cc.correctness,
                 completeness |-> cc.completeness,
                 similarity |-> mean_similarity(slice_to(retrieved_cases, k))]]]

\* The lists of at most MaxCases retrieved cases, each case once.
RetrievedLists ==
    UNION {{cs \in [1..n -> [id : 1..MaxCases, similarity : 0..Grain]] :
               \A a \in 1..n, b \in 1..n : a # b => cs[a].id # cs[b].id}
           : n \in 0..MaxCases}

Permuted(cs) ==
    {[k \in 1..Len(cs) |-> cs[pi[k]]] : pi \in Permutations(1..Len(cs))}

EvalLimits == {NoCutoff, 1, MaxCases}

\* Two RetrievalEvaluation objects of one query: one over the retrieved
\* cases, one over a permutation of them.
InitEval ==
    /\ query_graph = [n |-> 0, kind |-> <<>>, edges |-> {}]
    /\ mac_results = <<>>
    /\ oracle = <<>>
    /\ config = <<>>
    /\ failing = 0
    /\ rule = "random"
    /\ Start
    /\ \E cs \in RetrievedLists, limit \in EvalLimits :
       \E ps \in Permuted(cs), qrel \in [1..MaxCases -> 1..MaxRank] :
          evaluation = [pc |-> "new", retrieved_cases |-> cs, permuted |-> ps,
                        true_ranks |-> qrel, limit |-> limit,
                        metrics |-> <<>>, metrics_permuted |-> <<>>]

Evaluate ==
    /\ evaluation.pc = "new"
    /\ evaluation' = [evaluation EXCEPT
          !.pc = "first",
          !.metrics = compute_metrics(evaluation.retrieved_cases,
                                      evaluation.true_ranks, evaluation.limit)]
    /\ UNCHANGED <<query_graph, mac_results, oracle, failing, config, rule, i,
                   q, pc, selected, outcome, unsliced, results, ranking,
                   tasks, pooled>>

EvaluatePermuted ==
    /\ evaluation.pc = "first"
    /\ evaluation' = [evaluation EXCEPT
          !.pc = "both",
          !.metrics_permuted = compute_metrics(evaluation.permuted,
                                               evaluation.true_ranks,
                                               evaluation.limit)]
    /\ UNCHANGED <<query_graph, mac_results, oracle, failing, config, rule, i,
                   q, pc, selected, outcome, unsliced, results, ranking,
                   tasks, pooled>>

NextEval == Evaluate \/ EvaluatePermuted

SpecEval == InitEval /\ [][NextEval]_vars

\* C27: compute_metrics returns the same values for the retrieved cases and
\* for every permutation of them, at every cutoff.
C27_MetricsIgnoreTheOrder ==
    evaluation.pc = "both" => evaluation.metrics_permuted = evaluation.metrics
====
